---- MODULE Spec2Model ----
(***************************************************************************)
(* Model of the MCP Defender secure-tools filesystem server (src/index.ts):*)
(* the path sandbox (validatePath), the tool handlers that call it, and    *)
(* the edit engine (applyFileEdits).  Strings are TLA+ strings; the path   *)
(* helpers of Node's POSIX `path` module are computed character by         *)
(* character, so that prefix tests act on the same text as the code's.     *)
(* Four specifications: Spec, the server handling one tool call after      *)
(* another; SpecEdit, one edit_file call on one file; SpecRun, one          *)
(* run_terminal_command call callback by callback; SpecConc, two edit_file *)
(* calls whose awaits interleave.                                          *)
(***************************************************************************)
EXTENDS Integers, Sequences, FiniteSets, TLC

VARIABLES
    allowedDirectories,   \* index.ts:45  the boundary list built at startup
    cwd,                  \* process.cwd()
    fs,                   \* the filesystem: path -> node
    request,              \* the tool call handled last (name and arguments)
    events,               \* what the handler did, in order, during that call
    response,             \* what the handler returned for that call
    proc,                 \* index.ts:338-372  the child, the timer and the
                          \* promise of a run_terminal_command call in progress
    calls                 \* the edit_file calls in progress, each between
                          \* two of its awaits

vars == <<allowedDirectories, cwd, fs, request, events, response, proc, calls>>

(***************************************************************************)
(* String helpers (JavaScript String methods).                             *)
(***************************************************************************)
CharAt(s, i) == SubSeq(s, i, i)

\* String.prototype.startsWith
StartsWith(s, p) == Len(p) <= Len(s) /\ SubSeq(s, 1, Len(p)) = p

\* String.prototype.slice(n) for 0 <= n
SliceFrom(s, n) == IF n >= Len(s) THEN "" ELSE SubSeq(s, n + 1, Len(s))

\* String.prototype.indexOf, 1-based; 0 when sub does not occur
RECURSIVE IndexFrom(_, _, _)
IndexFrom(s, sub, i) ==
    IF i + Len(sub) - 1 > Len(s) THEN 0
    ELSE IF SubSeq(s, i, i + Len(sub) - 1) = sub THEN i
    ELSE IndexFrom(s, sub, i + 1)

IndexOf(s, sub) == IndexFrom(s, sub, 1)

\* String.prototype.includes
Includes(s, sub) == IndexOf(s, sub) > 0

\* String.prototype.split(sep) for a one-character separator
RECURSIVE SplitFrom(_, _, _, _)
SplitFrom(s, sep, i, cur) ==
    IF i > Len(s) THEN <<cur>>
    ELSE IF CharAt(s, i) = sep THEN <<cur>> \o SplitFrom(s, sep, i + 1, "")
    ELSE SplitFrom(s, sep, i + 1, cur \o CharAt(s, i))

Split(s, sep) == SplitFrom(s, sep, 1, "")

\* Array.prototype.join
RECURSIVE Join(_, _)
Join(parts, sep) ==
    IF Len(parts) = 0 THEN ""
    ELSE IF Len(parts) = 1 THEN parts[1]
    ELSE parts[1] \o sep \o Join(Tail(parts), sep)

(***************************************************************************)
(* Node's POSIX path module.                                               *)
(***************************************************************************)
\* path.isAbsolute
IsAbsolute(p) == Len(p) > 0 /\ CharAt(p, 1) = "/"

\* normalizeString of node:path: drops empty and "." segments and resolves
\* ".." against the segments kept so far
RECURSIVE NormalizeSegs(_, _, _)
NormalizeSegs(segs, acc, allowAboveRoot) ==
    IF Len(segs) = 0 THEN acc
    ELSE LET seg == Head(segs) IN
         IF seg = "" \/ seg = "." THEN NormalizeSegs(Tail(segs), acc, allowAboveRoot)
         ELSE IF seg = ".." THEN
              IF Len(acc) > 0 /\ acc[Len(acc)] # ".."
              THEN NormalizeSegs(Tail(segs), SubSeq(acc, 1, Len(acc) - 1), allowAboveRoot)
              ELSE IF allowAboveRoot
              THEN NormalizeSegs(Tail(segs), Append(acc, ".."), allowAboveRoot)
              ELSE NormalizeSegs(Tail(segs), acc, allowAboveRoot)
         ELSE NormalizeSegs(Tail(segs), Append(acc, seg), allowAboveRoot)

NormalizeString(p, allowAboveRoot) ==
    Join(NormalizeSegs(Split(p, "/"), <<>>, allowAboveRoot), "/")

\* path.normalize
PathNormalize(p) ==
    IF Len(p) = 0 THEN "."
    ELSE LET abs == IsAbsolute(p)
             trailing == CharAt(p, Len(p)) = "/"
             body == NormalizeString(p, ~abs)
             body1 == IF Len(body) = 0
                      THEN (IF abs THEN "" ELSE IF trailing THEN "./" ELSE ".")
                      ELSE IF trailing THEN body \o "/" ELSE body
         IN IF abs THEN "/" \o body1 ELSE body1

\* path.resolve(base, p) with an absolute base (path.resolve(p) is
\* path.resolve(process.cwd(), p))
PathResolve(base, p) ==
    LET joined == IF IsAbsolute(p) THEN p
                  ELSE IF Len(p) = 0 THEN base
                  ELSE base \o "/" \o p
    IN "/" \o NormalizeString(joined, FALSE)

\* path.join(a, b)
PathJoin(a, b) ==
    LET joined == IF Len(a) = 0 THEN b
                  ELSE IF Len(b) = 0 THEN a
                  ELSE a \o "/" \o b
    IN PathNormalize(joined)

\* path.dirname of an absolute path without trailing separator
RECURSIVE LastSlash(_, _)
LastSlash(p, i) ==
    IF i = 0 THEN 0
    ELSE IF CharAt(p, i) = "/" THEN i
    ELSE LastSlash(p, i - 1)

PathDirname(p) ==
    LET k == LastSlash(p, Len(p)) IN
    IF Len(p) = 0 \/ k = 0 THEN "."
    ELSE IF k = 1 THEN "/"
    ELSE SubSeq(p, 1, k - 1)

(***************************************************************************)
(* The filesystem.  A node is a directory, a regular file (with its text)  *)
(* or a symbolic link (with its target); a path that is no key of fs, or   *)
(* whose node has kind "none", does not exist.                             *)
(***************************************************************************)
Dir == [kind |-> "dir", target |-> "", content |-> ""]
File(text) == [kind |-> "file", target |-> "", content |-> text]
Link(to) == [kind |-> "link", target |-> to, content |-> ""]
Absent == [kind |-> "none", target |-> "", content |-> ""]

\* os.homedir()
HomeDir == "/home"

\* the longest chain of symbolic links followed while resolving one path
MaxLinkHops == 3

InitialFs ==
    ( "/work"           :> Dir
   @@ "/work/src"       :> Dir
   @@ "/work/src/a.txt" :> File("  foo()\nbar\n")
   @@ "/work/key"       :> Link("/etc/passwd")
   @@ "/work/out"       :> Link("/etc")
   @@ "/workx"          :> Dir
   @@ "/workx/b.txt"    :> File("x\n")
   @@ "/etc"            :> Dir
   @@ "/etc/passwd"     :> File("root\n")
   @@ "/tmp"            :> Link("/work")
   @@ "/home"           :> Dir
   @@ "/home/c.txt"     :> File("c\n") )

NodeAt(f, p) == IF p = "/" THEN Dir ELSE IF p \in DOMAIN f THEN f[p] ELSE Absent

Exists(f, p) == NodeAt(f, p).kind # "none"

Child(dir, seg) == IF dir = "/" THEN "/" \o seg ELSE dir \o "/" \o seg

\* fs.realpath: every component must exist, symbolic links are followed, a
\* file cannot be traversed.  "" stands for the rejection (ENOENT, ENOTDIR,
\* ELOOP); it is never a real path.
RECURSIVE RealpathWalk(_, _, _, _)
RealpathWalk(f, cur, segs, hops) ==
    IF Len(segs) = 0 THEN cur
    ELSE LET next == Child(cur, Head(segs))
             node == NodeAt(f, next)
         IN IF node.kind = "none" THEN ""
            ELSE IF node.kind = "link" THEN
                 IF hops = 0 THEN ""
                 ELSE LET to == RealpathWalk(f, "/",
                                    NormalizeSegs(Split(node.target, "/"), <<>>, FALSE),
                                    hops - 1)
                      IN IF to = "" THEN "" ELSE RealpathWalk(f, to, Tail(segs), hops)
            ELSE IF node.kind = "file" /\ Len(segs) > 1 THEN ""
            ELSE RealpathWalk(f, next, Tail(segs), hops)

Realpath(f, p) ==
    RealpathWalk(f, "/", NormalizeSegs(Split(p, "/"), <<>>, FALSE), MaxLinkHops)

(***************************************************************************)
(* Startup: index.ts:32-61.                                                *)
(***************************************************************************)
\* index.ts:33
normalizePath(p) == PathNormalize(p)

\* index.ts:37
expandHome(filepath) ==
    IF StartsWith(filepath, "~/") \/ filepath = "~"
    THEN PathJoin(HomeDir, SliceFrom(filepath, 1))
    ELSE filepath

\* index.ts:45  args.map(dir => normalizePath(path.resolve(expandHome(dir))))
AllowedDirectoriesOf(args, wd) ==
    [i \in 1..Len(args) |-> normalizePath(PathResolve(wd, expandHome(args[i])))]

\* index.ts:50-61  the server exits unless every argument is a directory
\* (fs.stat follows symbolic links)
StartupOk(f, args, wd) ==
    \A i \in 1..Len(args) :
        LET real == Realpath(f, PathResolve(wd, expandHome(args[i])))
        IN real # "" /\ NodeAt(f, real).kind = "dir"

(***************************************************************************)
(* validatePath: index.ts:64-102.  An outcome is a returned path or a      *)
(* thrown Error with its message.                                          *)
(***************************************************************************)
Return(p) == [ok |-> TRUE, path |-> p, err |-> ""]
Throw(msg) == [ok |-> FALSE, path |-> "", err |-> msg]

\* index.ts:73, 82, 93  allowedDirectories.some(dir => p.startsWith(dir))
IsAllowed(dirs, p) == \E i \in 1..Len(dirs) : StartsWith(p, dirs[i])

\* index.ts:65-68
AbsoluteOf(wd, requestedPath) == PathResolve(wd, expandHome(requestedPath))

\* index.ts:80-86  the body of the outer try
TryRealPath(f, dirs, absolute) ==
    LET realPath == Realpath(f, absolute) IN
    IF realPath = "" THEN Throw("ENOENT: no such file or directory")
    ELSE IF ~IsAllowed(dirs, normalizePath(realPath))
    THEN Throw("Access denied - symlink target outside allowed directories")
    ELSE Return(realPath)

\* TryParent returning the parent's real path in place of the requested path
TryParent_ReturnsParent(f, dirs, absolute) ==
    LET parentDir == PathDirname(absolute)
        realParentPath == Realpath(f, parentDir)
    IN IF realParentPath = "" THEN Throw("ENOENT: no such file or directory")
       ELSE IF ~IsAllowed(dirs, normalizePath(realParentPath))
       THEN Throw("Access denied - parent directory outside allowed directories")
       ELSE Return(realParentPath)

\* index.ts:89-97  the body of the inner try
TryParent(f, dirs, absolute) ==
    LET parentDir == PathDirname(absolute)
        realParentPath == Realpath(f, parentDir)
    IN IF realParentPath = "" THEN Throw("ENOENT: no such file or directory")
       ELSE IF ~IsAllowed(dirs, normalizePath(realParentPath))
       THEN Throw("Access denied - parent directory outside allowed directories")
       ELSE Return(absolute)

\* index.ts:87-101  the outer catch takes every error of the outer try, the
\* inner catch every error of the inner try
CatchRealPath(f, dirs, absolute) ==
    LET inner == TryParent(f, dirs, absolute) IN
    IF inner.ok THEN inner
    ELSE Throw("Parent directory does not exist: " \o PathDirname(absolute))

validatePath(f, dirs, wd, requestedPath) ==
    LET absolute == AbsoluteOf(wd, requestedPath)
        normalizedRequested == normalizePath(absolute)
    IN IF ~IsAllowed(dirs, normalizedRequested)
       THEN Throw("Access denied - path outside allowed directories: " \o absolute)
       ELSE LET outer == TryRealPath(f, dirs, absolute) IN
            IF outer.ok THEN outer ELSE CatchRealPath(f, dirs, absolute)

(***************************************************************************)
(* The edit engine: index.ts:376-462.                                      *)
(***************************************************************************)
\* index.ts:377  text.replace(/\r\n/g, '\n')
RECURSIVE NormalizeFrom(_, _)
NormalizeFrom(text, i) ==
    IF i > Len(text) THEN ""
    ELSE IF i < Len(text) /\ SubSeq(text, i, i + 1) = "\r\n"
    THEN "\n" \o NormalizeFrom(text, i + 2)
    ELSE CharAt(text, i) \o NormalizeFrom(text, i + 1)

normalizeLineEndings(text) == NormalizeFrom(text, 1)

\* the characters JavaScript's \s and trim() take for white space, among
\* those a line can hold
IsSpace(c) == c \in {" ", "\t", "\r"}

\* line.match(/^\s*/)[0]
RECURSIVE LeadingSpace(_)
LeadingSpace(line) ==
    IF Len(line) = 0 \/ ~IsSpace(Head(line)) THEN ""
    ELSE Head(line) \o LeadingSpace(Tail(line))

\* String.prototype.trimStart
TrimStart(line) == SliceFrom(line, Len(LeadingSpace(line)))

\* String.prototype.trimEnd
RECURSIVE TrimEnd(_)
TrimEnd(line) ==
    IF Len(line) = 0 \/ ~IsSpace(CharAt(line, Len(line))) THEN line
    ELSE TrimEnd(SubSeq(line, 1, Len(line) - 1))

\* String.prototype.trim
Trim(line) == TrimEnd(TrimStart(line))

\* ' '.repeat(n)
RECURSIVE Spaces(_)
Spaces(n) == IF n <= 0 THEN "" ELSE " " \o Spaces(n - 1)

\* the character ` (a TLA+ string literal cannot hold it alone)
Backtick == SubSeq("`'", 1, 1)

\* GetSubstitution of String.prototype.replace for a string pattern: in the
\* replacement, $$ is a dollar sign, $& the matched text, $ with a backtick
\* the text before the match and $ with an apostrophe the text after it;
\* any other character is itself
RECURSIVE Substitute(_, _, _, _, _)
Substitute(repl, i, matched, before, after) ==
    IF i > Len(repl) THEN ""
    ELSE IF CharAt(repl, i) = "$" /\ i < Len(repl) THEN
         LET c == CharAt(repl, i + 1) IN
         IF c = "$" THEN "$" \o Substitute(repl, i + 2, matched, before, after)
         ELSE IF c = "&" THEN matched \o Substitute(repl, i + 2, matched, before, after)
         ELSE IF c = Backtick THEN before \o Substitute(repl, i + 2, matched, before, after)
         ELSE IF c = "'" THEN after \o Substitute(repl, i + 2, matched, before, after)
         ELSE "$" \o Substitute(repl, i + 1, matched, before, after)
    ELSE CharAt(repl, i) \o Substitute(repl, i + 1, matched, before, after)

\* index.ts:408  modifiedContent.replace(normalizedOld, normalizedNew): the
\* first occurrence only, with the replacement patterns expanded
StringReplace(s, pattern, repl) ==
    LET k == IndexOf(s, pattern) IN
    IF k = 0 THEN s
    ELSE LET before == SubSeq(s, 1, k - 1)
             after == SliceFrom(s, k + Len(pattern) - 1)
         IN before \o Substitute(repl, 1, pattern, before, after) \o after

\* index.ts:419-422  oldLines.every((oldLine, j) => oldLine.trim() === window[j].trim())
WindowMatches(contentLines, oldLines, i) ==
    \A j \in 1..Len(oldLines) : Trim(oldLines[j]) = Trim(contentLines[i + j - 1])

\* FirstWindow taking the highest window start that matches
RECURSIVE FirstWindow_Last(_, _, _)
FirstWindow_Last(contentLines, oldLines, i) ==
    IF i + Len(oldLines) - 1 > Len(contentLines) THEN 0
    ELSE LET later == FirstWindow_Last(contentLines, oldLines, i + 1) IN
         IF later # 0 THEN later
         ELSE IF WindowMatches(contentLines, oldLines, i) THEN i
         ELSE 0

\* index.ts:416-442  the lowest window start that matches (1-based), 0 if none
RECURSIVE FirstWindow(_, _, _)
FirstWindow(contentLines, oldLines, i) ==
    IF i + Len(oldLines) - 1 > Len(contentLines) THEN 0
    ELSE IF WindowMatches(contentLines, oldLines, i) THEN i
    ELSE FirstWindow(contentLines, oldLines, i + 1)

\* index.ts:425-435  the replacement lines for the window starting at line i
ReindentedLines(contentLines, oldLines, normalizedNew, i) ==
    LET originalIndent == LeadingSpace(contentLines[i])
        lines == Split(normalizedNew, "\n")
    IN [j \in 1..Len(lines) |->
          IF j = 1 THEN originalIndent \o TrimStart(lines[j])
          ELSE LET oldIndent == IF j <= Len(oldLines) THEN LeadingSpace(oldLines[j]) ELSE ""
                   newIndent == LeadingSpace(lines[j])
               IN IF oldIndent # "" /\ newIndent # ""
                  THEN originalIndent \o Spaces(Len(newIndent) - Len(oldIndent))
                                      \o TrimStart(lines[j])
                  ELSE lines[j]]

\* index.ts:437  contentLines.splice(i, oldLines.length, ...newLines)
Splice(contentLines, i, count, newLines) ==
    SubSeq(contentLines, 1, i - 1) \o newLines
        \o SubSeq(contentLines, i + count, Len(contentLines))

\* ApplyOneEdit leaving the content as it is when the edit matches nowhere
ApplyOneEdit_KeepsUnmatched(modifiedContent, edit) ==
    LET normalizedOld == normalizeLineEndings(edit.oldText)
        normalizedNew == normalizeLineEndings(edit.newText)
    IN IF Includes(modifiedContent, normalizedOld)
       THEN Return(StringReplace(modifiedContent, normalizedOld, normalizedNew))
       ELSE LET oldLines == Split(normalizedOld, "\n")
                contentLines == Split(modifiedContent, "\n")
                i == FirstWindow(contentLines, oldLines, 1)
            IN IF i = 0
               THEN Return(modifiedContent)
               ELSE Return(Join(Splice(contentLines, i, Len(oldLines),
                                ReindentedLines(contentLines, oldLines, normalizedNew, i)),
                                "\n"))

\* index.ts:404-446  one pass of the loop: the content after the edit, or
\* the Error thrown at index.ts:445
ApplyOneEdit(modifiedContent, edit) ==
    LET normalizedOld == normalizeLineEndings(edit.oldText)
        normalizedNew == normalizeLineEndings(edit.newText)
    IN IF Includes(modifiedContent, normalizedOld)
       THEN Return(StringReplace(modifiedContent, normalizedOld, normalizedNew))
       ELSE LET oldLines == Split(normalizedOld, "\n")
                contentLines == Split(modifiedContent, "\n")
                i == FirstWindow(contentLines, oldLines, 1)
            IN IF i = 0
               THEN Throw("Could not find exact match for edit:\n" \o edit.oldText)
               ELSE Return(Join(Splice(contentLines, i, Len(oldLines),
                                ReindentedLines(contentLines, oldLines, normalizedNew, i)),
                                "\n"))

\* ApplyEdits taking the edits from the end of the list
RECURSIVE ApplyEdits_FromEnd(_, _)
ApplyEdits_FromEnd(modifiedContent, edits) ==
    IF Len(edits) = 0 THEN Return(modifiedContent)
    ELSE LET step == ApplyOneEdit(modifiedContent, edits[Len(edits)]) IN
         IF step.ok THEN ApplyEdits_FromEnd(step.path, SubSeq(edits, 1, Len(edits) - 1))
         ELSE step

\* index.ts:402-447  the loop over the edits, in list order, each on the
\* content the previous ones left
RECURSIVE ApplyEdits(_, _)
ApplyEdits(modifiedContent, edits) ==
    IF Len(edits) = 0 THEN Return(modifiedContent)
    ELSE LET step == ApplyOneEdit(modifiedContent, Head(edits)) IN
         IF step.ok THEN ApplyEdits(step.path, Tail(edits)) ELSE step

\* index.ts:381-393  createTwoFilesPatch of the diff package, reduced to its
\* header and, when the texts differ, one hunk that removes every original
\* line and adds every new one
RECURSIVE PrefixLines(_, _)
PrefixLines(lines, mark) ==
    IF Len(lines) = 0 THEN ""
    ELSE mark \o Head(lines) \o "\n" \o PrefixLines(Tail(lines), mark)

createUnifiedDiff(originalContent, newContent, filepath) ==
    LET normalizedOriginal == normalizeLineEndings(originalContent)
        normalizedNew == normalizeLineEndings(newContent)
        header == "--- " \o filepath \o "\toriginal\n+++ " \o filepath \o "\tmodified\n"
    IN IF normalizedOriginal = normalizedNew THEN header
       ELSE header \o "@@\n" \o PrefixLines(Split(normalizedOriginal, "\n"), "-")
                   \o PrefixLines(Split(normalizedNew, "\n"), "+")

\* '`'.repeat(n)
RECURSIVE Backticks(_)
Backticks(n) == IF n <= 0 THEN "" ELSE Backtick \o Backticks(n - 1)

\* index.ts:451-454
RECURSIVE NumBackticks(_, _)
NumBackticks(diff, n) ==
    IF Includes(diff, Backticks(n)) THEN NumBackticks(diff, n + 1) ELSE n

\* index.ts:455
FormattedDiff(diff) ==
    LET fence == Backticks(NumBackticks(diff, 3)) IN
    fence \o "diff\n" \o diff \o fence \o "\n\n"

(***************************************************************************)
(* Filesystem calls of fs/promises.                                        *)
(***************************************************************************)
\* fs.readFile(p, 'utf-8'): follows symbolic links
FsReadFile(f, p) ==
    LET real == Realpath(f, p) IN
    IF real = "" THEN Throw("ENOENT: no such file or directory, open '" \o p \o "'")
    ELSE IF NodeAt(f, real).kind = "dir"
    THEN Throw("EISDIR: illegal operation on a directory, read")
    ELSE Return(NodeAt(f, real).content)

\* fs.writeFile(p, text, 'utf-8') on a file that exists: follows symbolic links
FsWriteFile(f, p, text) ==
    LET real == Realpath(f, p) IN
    IF real # "" /\ NodeAt(f, real).kind = "file"
    THEN [f EXCEPT ![real] = File(text)]
    ELSE f

\* path.basename
Basename(p) == SliceFrom(p, LastSlash(p, Len(p)))

\* the node a path names without following a final symbolic link
LinkPath(f, p) ==
    LET parent == Realpath(f, PathDirname(p)) IN
    IF parent = "" THEN "" ELSE Child(parent, Basename(p))

\* fs.unlink(p): removes a file or a symbolic link, never a directory
FsUnlink(f, p) ==
    LET key == LinkPath(f, p) IN
    IF key = "" \/ ~Exists(f, key)
    THEN [ok |-> FALSE, fs |-> f, err |-> "ENOENT: no such file or directory, unlink '" \o p \o "'"]
    ELSE IF NodeAt(f, key).kind = "dir"
    THEN [ok |-> FALSE, fs |-> f, err |-> "EPERM: operation not permitted, unlink '" \o p \o "'"]
    ELSE [ok |-> TRUE, fs |-> [f EXCEPT ![key] = Absent], err |-> ""]

\* the order in which a directory's entries are listed
NodeOrder ==
    << "/work", "/work/src", "/work/src/a.txt", "/work/key", "/work/out", "/workx",
       "/workx/b.txt", "/etc", "/etc/passwd", "/tmp", "/home", "/home/c.txt" >>

\* index.ts:574-577  fs.readdir(p, {withFileTypes: true}), formatted
RECURSIVE EntryLines(_, _, _)
EntryLines(f, dir, k) ==
    IF k > Len(NodeOrder) THEN <<>>
    ELSE LET n == NodeOrder[k] IN
         IF Exists(f, n) /\ n # "/" /\ PathDirname(n) = dir
         THEN <<(IF NodeAt(f, n).kind = "dir" THEN "[DIR] " ELSE "[FILE] ") \o Basename(n)>>
                  \o EntryLines(f, dir, k + 1)
         ELSE EntryLines(f, dir, k + 1)

FsReaddir(f, p) ==
    LET real == Realpath(f, p) IN
    IF real = "" THEN Throw("ENOENT: no such file or directory, scandir '" \o p \o "'")
    ELSE IF NodeAt(f, real).kind # "dir"
    THEN Throw("ENOTDIR: not a directory, scandir '" \o p \o "'")
    ELSE Return(Join(EntryLines(f, real, 1), "\n"))

(***************************************************************************)
(* What a handler did: validatePath calls, filesystem calls and spawned    *)
(* children, in order.  path is the path the operation was given; out is   *)
(* the path validatePath returned, or the cwd option given to spawn; err   *)
(* is the message of the Error validatePath threw.                         *)
(***************************************************************************)
Ev(op, path, ok, out) ==
    [op |-> op, path |-> path, ok |-> ok, out |-> out, err |-> ""]

ValidateEv(requestedPath, v) ==
    [op |-> "validatePath", path |-> requestedPath, ok |-> v.ok, out |-> v.path,
     err |-> v.err]

\* applyFileEdits writing the file whatever dryRun is
applyFileEdits_AlwaysWrites(f, filePath, edits, dryRun) ==
    LET read == FsReadFile(f, filePath)
        readEv == Ev("readFile", filePath, read.ok, "")
    IN IF ~read.ok THEN [events |-> <<readEv>>, result |-> read, fs |-> f]
       ELSE LET content == normalizeLineEndings(read.path)
                applied == ApplyEdits(content, edits)
            IN IF ~applied.ok THEN [events |-> <<readEv>>, result |-> applied, fs |-> f]
               ELSE LET modifiedContent == applied.path
                        diff == createUnifiedDiff(content, modifiedContent, filePath)
                    IN [events |-> <<readEv, Ev("writeFile", filePath, TRUE, "")>>,
                        result |-> Return(FormattedDiff(diff)),
                        fs |-> FsWriteFile(f, filePath, modifiedContent)]

\* index.ts:395-462  applyFileEdits: the events, the outcome and the
\* filesystem it leaves
applyFileEdits(f, filePath, edits, dryRun) ==
    LET read == FsReadFile(f, filePath)
        readEv == Ev("readFile", filePath, read.ok, "")
    IN IF ~read.ok THEN [events |-> <<readEv>>, result |-> read, fs |-> f]
       ELSE LET content == normalizeLineEndings(read.path)
                applied == ApplyEdits(content, edits)
            IN IF ~applied.ok THEN [events |-> <<readEv>>, result |-> applied, fs |-> f]
               ELSE LET modifiedContent == applied.path
                        diff == createUnifiedDiff(content, modifiedContent, filePath)
                    IN IF dryRun
                       THEN [events |-> <<readEv>>, result |-> Return(FormattedDiff(diff)),
                             fs |-> f]
                       ELSE [events |-> <<readEv, Ev("writeFile", filePath, TRUE, "")>>,
                             result |-> Return(FormattedDiff(diff)),
                             fs |-> FsWriteFile(f, filePath, modifiedContent)]

(***************************************************************************)
(* Child processes: index.ts:158-188.  What a child does is an input: it   *)
(* closes with an exit code and its output, or fails to start.             *)
(***************************************************************************)
Closed(code, stdout, stderr) ==
    [kind |-> "close", code |-> code, stdout |-> stdout, stderr |-> stderr]
Failed == [kind |-> "error", code |-> 0, stdout |-> "", stderr |-> "spawn ENOENT"]

ChildResults ==
    { Closed(0, "/work/src/a.txt:1:foo\n", ""), Closed(0, "", ""),
      Closed(1, "", ""), Closed(2, "", "grep: failure\n"), Failed }

\* index.ts:176-186  how runCommand settles
runCommand(child) ==
    IF child.kind = "error" THEN Throw("Failed to execute command: " \o child.stderr)
    ELSE IF child.code = 0 THEN Return(child.stdout)
    ELSE Throw("Command failed with exit code " \o ToString(child.code) \o ": "
               \o (IF child.stderr # "" THEN child.stderr ELSE child.stdout))

\* output.trim().split('\n').filter(line => line)
RECURSIVE TrimOutputStart(_)
TrimOutputStart(s) ==
    IF Len(s) = 0 \/ ~(IsSpace(Head(s)) \/ Head(s) = "\n") THEN s
    ELSE TrimOutputStart(Tail(s))

RECURSIVE TrimOutputEnd(_)
TrimOutputEnd(s) ==
    IF Len(s) = 0 \/ ~(IsSpace(CharAt(s, Len(s))) \/ CharAt(s, Len(s)) = "\n") THEN s
    ELSE TrimOutputEnd(SubSeq(s, 1, Len(s) - 1))

OutputLines(output) ==
    SelectSeq(Split(TrimOutputEnd(TrimOutputStart(output)), "\n"), LAMBDA l : l # "")

(***************************************************************************)
(* The tool handlers: index.ts:551-661.  A handler's outcome is the events *)
(* of the call, the response returned and the filesystem left behind.      *)
(***************************************************************************)
TextResponse(text) == [isError |-> FALSE, text |-> text]

\* index.ts:654-660  every Error thrown in the handler becomes an error result
ErrorResponse(msg) == [isError |-> TRUE, text |-> "Error: " \o msg]

Outcome(evs, resp, f) == [events |-> evs, response |-> resp, fs |-> f]

\* HandleReadFile reading the file whatever validatePath answered
HandleReadFile_Unchecked(f, dirs, wd, path) ==
    LET v == validatePath(f, dirs, wd, path)
        target == IF v.ok THEN v.path ELSE AbsoluteOf(wd, path)
        r == FsReadFile(f, target)
    IN Outcome(<<ValidateEv(path, v), Ev("readFile", target, r.ok, "")>>,
               IF r.ok THEN TextResponse(r.path) ELSE ErrorResponse(r.err), f)

\* index.ts:556-566
HandleReadFile(f, dirs, wd, path) ==
    LET v == validatePath(f, dirs, wd, path) IN
    IF ~v.ok THEN Outcome(<<ValidateEv(path, v)>>, ErrorResponse(v.err), f)
    ELSE LET r == FsReadFile(f, v.path) IN
         Outcome(<<ValidateEv(path, v), Ev("readFile", v.path, r.ok, "")>>,
                 IF r.ok THEN TextResponse(r.path) ELSE ErrorResponse(r.err), f)

\* index.ts:568-581
HandleListDirectory(f, dirs, wd, path) ==
    LET v == validatePath(f, dirs, wd, path) IN
    IF ~v.ok THEN Outcome(<<ValidateEv(path, v)>>, ErrorResponse(v.err), f)
    ELSE LET r == FsReaddir(f, v.path) IN
         Outcome(<<ValidateEv(path, v), Ev("readdir", v.path, r.ok, "")>>,
                 IF r.ok THEN TextResponse(r.path) ELSE ErrorResponse(r.err), f)

\* index.ts:294-317 and 583-592
searchFilesCLI(f, dirs, wd, searchPath, child) ==
    LET v == validatePath(f, dirs, wd, searchPath) IN
    IF ~v.ok
    THEN Outcome(<<ValidateEv(searchPath, v)>>,
                 ErrorResponse("Search failed: " \o v.err), f)
    ELSE LET run == runCommand(child)
             evs == <<ValidateEv(searchPath, v), Ev("spawn", searchPath, TRUE, wd)>>
         IN IF ~run.ok THEN Outcome(evs, ErrorResponse("Search failed: " \o run.err), f)
            ELSE LET files == OutputLines(run.path) IN
                 Outcome(evs, TextResponse(IF Len(files) > 0 THEN Join(files, "\n")
                                           ELSE "No matches found"), f)

\* index.ts:594-604
HandleEditFile(f, dirs, wd, path, edits, dryRun) ==
    LET v == validatePath(f, dirs, wd, path) IN
    IF ~v.ok THEN Outcome(<<ValidateEv(path, v)>>, ErrorResponse(v.err), f)
    ELSE LET a == applyFileEdits(f, v.path, edits, dryRun) IN
         Outcome(<<ValidateEv(path, v)>> \o a.events,
                 IF a.result.ok THEN TextResponse(a.result.path)
                 ELSE ErrorResponse(a.result.err), a.fs)

\* index.ts:639-649
HandleDeleteFile(f, dirs, wd, path) ==
    LET v == validatePath(f, dirs, wd, path) IN
    IF ~v.ok THEN Outcome(<<ValidateEv(path, v)>>, ErrorResponse(v.err), f)
    ELSE LET r == FsUnlink(f, v.path) IN
         Outcome(<<ValidateEv(path, v), Ev("unlink", v.path, r.ok, "")>>,
                 IF r.ok THEN TextResponse("Successfully deleted file " \o path)
                 ELSE ErrorResponse(r.err), r.fs)

\* index.ts:256-289  the loop of grepSearchCLI from the k-th search path on:
\* a path that fails validation, and a grep that fails, are skipped
RECURSIVE GrepLoop(_, _, _, _, _, _, _, _, _)
GrepLoop(f, dirs, wd, searchPaths, k, children, maxResults, results, evs) ==
    IF k > Len(searchPaths) \/ Len(results) >= maxResults
    THEN [results |-> results, events |-> evs]
    ELSE LET dir == searchPaths[k]
             v == validatePath(f, dirs, wd, dir)
         IN IF ~v.ok
            THEN GrepLoop(f, dirs, wd, searchPaths, k + 1, children, maxResults, results,
                          Append(evs, ValidateEv(dir, v)))
            ELSE LET run == runCommand(children[k])
                     evs2 == evs \o <<ValidateEv(dir, v), Ev("spawn", dir, TRUE, wd)>>
                 IN IF ~run.ok
                    THEN GrepLoop(f, dirs, wd, searchPaths, k + 1, children, maxResults,
                                  results, evs2)
                    ELSE LET lines == OutputLines(run.path)
                             room == maxResults - Len(results)
                             taken == SubSeq(lines, 1, IF Len(lines) < room THEN Len(lines)
                                                       ELSE room)
                         IN GrepLoop(f, dirs, wd, searchPaths, k + 1, children, maxResults,
                                     results \o taken, evs2)

\* index.ts:246-292 and 628-637; searchPath "" is an omitted path
grepSearchCLI(f, dirs, wd, searchPath, children, maxResults) ==
    LET searchPaths == IF searchPath # "" THEN <<searchPath>> ELSE dirs
        loop == GrepLoop(f, dirs, wd, searchPaths, 1, children, maxResults, <<>>, <<>>)
    IN Outcome(loop.events,
               TextResponse(IF Len(loop.results) > 0 THEN Join(loop.results, "\n")
                            ELSE "No matches found"), f)

\* index.ts:328-330
WorkingDirAllowed(dirs, wd, workingDirectory) ==
    \E i \in 1..Len(dirs) : StartsWith(PathResolve(wd, workingDirectory), dirs[i])

\* index.ts:326-336  the cwd option of the spawned shell; workingDirectory ""
\* is an omitted one
ValidWorkingDir(wd, workingDirectory) ==
    IF workingDirectory # "" THEN workingDirectory ELSE wd

TimedOut(stdout, stderr) ==
    [kind |-> "timeout", code |-> 0, stdout |-> stdout, stderr |-> stderr]

\* index.ts:354-372  how the call settles
RunSettles(child, timeout) ==
    IF child.kind = "timeout"
    THEN Throw("Command timed out after " \o ToString(timeout) \o "ms")
    ELSE IF child.kind = "error" THEN Throw("Failed to execute command: " \o child.stderr)
    ELSE LET output == child.stdout \o
                 (IF child.stderr # "" THEN "\nSTDERR:\n" \o child.stderr ELSE "")
         IN IF child.code = 0
            THEN Return(IF output # "" THEN output ELSE "Command completed successfully")
            ELSE Throw("Command failed with exit code " \o ToString(child.code) \o ":\n"
                       \o output)

\* index.ts:319-374 and 617-626
runTerminalCommandCLI(f, dirs, wd, workingDirectory, timeout, child) ==
    IF workingDirectory # "" /\ ~WorkingDirAllowed(dirs, wd, workingDirectory)
    THEN Outcome(<<>>, ErrorResponse("Working directory outside allowed directories"), f)
    ELSE LET settled == RunSettles(child, timeout) IN
         Outcome(<<Ev("spawn", "", TRUE, ValidWorkingDir(wd, workingDirectory))>>,
                 IF settled.ok THEN TextResponse(settled.path)
                 ELSE ErrorResponse(settled.err), f)

(***************************************************************************)
(* Inputs.                                                                 *)
(***************************************************************************)
\* the command lines the server is started with
ArgLists == { <<"/work">>, <<"/tmp">>, <<"/work/src", "~">>, <<"/work/out">> }

\* the directories the server is started in
Cwds == { "/work", "/etc" }

\* the path arguments of the tool calls
RequestPaths ==
    { "/work/src/a.txt", "/work/src/../../etc/passwd", "/etc/passwd", "/workx/b.txt",
      "/work/key", "/work/out/passwd", "/work/out/new.txt", "/work/src/new.txt",
      "/work/none/new.txt", "/tmp/src/a.txt", "/tmp/new.txt", "src/a.txt", "~/c.txt",
      "/work", "/work/src", "/work/out", "/workx/new.txt", "/etc/new.txt",
      "/work/src/../src/new.txt" }

\* the workingDirectory arguments of run_terminal_command ("" is none)
WorkingDirs == { "", "/work/src", "/work/out", "/workx", "/etc", "src", "/work/none" }

E(o, n) == [oldText |-> o, newText |-> n]

\* the edit lists of the edit_file calls
ToolEdits == { <<E("  foo()", "baz()")>>, <<E("bar", "qux"), E("missing", "x")>> }

\* index.ts:139 and 322  the default timeout
DefaultTimeout == 30000

\* index.ts:147 and 251  the default maxResults
DefaultMaxResults == 100

NoRequest == [name |-> "none"]
NoResponse == [isError |-> FALSE, text |-> ""]

\* no command is running, no edit_file call is between two awaits
NoRun == [child |-> "none"]
NoCalls == <<>>

Idle == request.name = "none"

Handled(req, h) ==
    /\ request' = req
    /\ events' = h.events
    /\ response' = h.response
    /\ fs' = h.fs
    /\ UNCHANGED <<allowedDirectories, cwd, proc, calls>>

(***************************************************************************)
(* Actions: one per tool of the CallToolRequestSchema handler.             *)
(***************************************************************************)
read_file ==
    /\ Idle
    /\ \E path \in RequestPaths :
          Handled([name |-> "read_file", path |-> path],
                  HandleReadFile(fs, allowedDirectories, cwd, path))

list_directory ==
    /\ Idle
    /\ \E path \in RequestPaths :
          Handled([name |-> "list_directory", path |-> path],
                  HandleListDirectory(fs, allowedDirectories, cwd, path))

search_files ==
    /\ Idle
    /\ \E path \in RequestPaths, child \in ChildResults :
          Handled([name |-> "search_files", path |-> path],
                  searchFilesCLI(fs, allowedDirectories, cwd, path, child))

edit_file ==
    /\ Idle
    /\ \E path \in RequestPaths, edits \in ToolEdits, dryRun \in BOOLEAN :
          Handled([name |-> "edit_file", path |-> path, edits |-> edits,
                   dryRun |-> dryRun],
                  HandleEditFile(fs, allowedDirectories, cwd, path, edits, dryRun))

delete_file ==
    /\ Idle
    /\ \E path \in RequestPaths :
          Handled([name |-> "delete_file", path |-> path],
                  HandleDeleteFile(fs, allowedDirectories, cwd, path))

grep_search ==
    /\ Idle
    /\ \E path \in RequestPaths \cup {""}, maxResults \in {1, DefaultMaxResults},
          children \in [1..Len(allowedDirectories) -> ChildResults] :
          Handled([name |-> "grep_search", path |-> path, maxResults |-> maxResults],
                  grepSearchCLI(fs, allowedDirectories, cwd, path, children, maxResults))

\* a shell cannot start in a cwd that is no directory
CanStartIn(f, wd, dir) ==
    LET real == Realpath(f, PathResolve(wd, dir)) IN
    real # "" /\ NodeAt(f, real).kind = "dir"

run_terminal_command ==
    /\ Idle
    /\ \E workingDirectory \in WorkingDirs,
          child \in ChildResults \cup {TimedOut("partial\n", "")} :
          /\ CanStartIn(fs, cwd, ValidWorkingDir(cwd, workingDirectory))
                \/ child = Failed
          /\ Handled([name |-> "run_terminal_command",
                      workingDirectory |-> workingDirectory, timeout |-> DefaultTimeout],
                     runTerminalCommandCLI(fs, allowedDirectories, cwd, workingDirectory,
                                           DefaultTimeout, child))

\* the result is handed to the caller and the server waits for the next call
Respond ==
    /\ ~Idle
    /\ request' = NoRequest
    /\ events' = <<>>
    /\ response' = NoResponse
    /\ UNCHANGED <<allowedDirectories, cwd, fs, proc, calls>>

Init ==
    /\ \E args \in ArgLists, wd \in Cwds :
          /\ StartupOk(InitialFs, args, wd)
          /\ allowedDirectories = AllowedDirectoriesOf(args, wd)
          /\ cwd = wd
    /\ fs = InitialFs
    /\ request = NoRequest
    /\ events = <<>>
    /\ response = NoResponse
    /\ proc = NoRun
    /\ calls = NoCalls

Next ==
    \/ read_file
    \/ list_directory
    \/ search_files
    \/ edit_file
    \/ delete_file
    \/ grep_search
    \/ run_terminal_command
    \/ Respond

Spec == Init /\ [][Next]_vars

(***************************************************************************)
(* The edit engine on its own: one file, its text and the edit list drawn  *)
(* from bounded sets, and one edit_file call applied to it.                *)
(***************************************************************************)
\* the file the edits are applied to
EditPath == "/work/src/a.txt"

\* the texts the file starts with
Contents ==
    { "a\nb", "  a\n  a\nb", "a\r\nb\r\n", "    foo()\nb", "", "c a c", "a\rc\nb" }

\* the old and new texts of the edits
EditTexts == { "a", "c", "c\nb", " c \nb", "a\r\nb", "$&b" }

\* the longest edit list of one call
MaxEdits == 2

RECURSIVE ListsUpTo(_, _)
ListsUpTo(S, n) ==
    IF n = 0 THEN { <<>> }
    ELSE LET shorter == ListsUpTo(S, n - 1) IN
         shorter \cup { Append(l, x) : l \in shorter, x \in S }

\* edits whose old text differs from the content in white space only
DriftEdits == { <<E("  foo()", "bar()")>>, <<E("a ", "c")>>, <<E("a ", "c\nb")>> }

\* an edit that removes its old text
RemovalEdits == { <<E("c", "")>> }

\* the text with a replacement pattern is a new text only: no content holds it
OldTexts == EditTexts \ { "$&b" }

EditLists ==
    ListsUpTo({ E(o, n) : o \in OldTexts, n \in EditTexts }, MaxEdits)
        \cup DriftEdits \cup RemovalEdits

InitEdit ==
    /\ allowedDirectories = <<"/work">>
    /\ cwd = "/work"
    /\ \E content \in Contents : fs = [InitialFs EXCEPT ![EditPath] = File(content)]
    /\ request = NoRequest
    /\ events = <<>>
    /\ response = NoResponse
    /\ proc = NoRun
    /\ calls = NoCalls

edit_text ==
    /\ Idle
    /\ \E edits \in EditLists, dryRun \in BOOLEAN :
          Handled([name |-> "edit_file", path |-> EditPath, edits |-> edits,
                   dryRun |-> dryRun],
                  HandleEditFile(fs, allowedDirectories, cwd, EditPath, edits, dryRun))

NextEdit == edit_text

SpecEdit == InitEdit /\ [][NextEdit]_vars

(***************************************************************************)
(* The process runner event by event: index.ts:319-374.  After the spawn   *)
(* the event loop runs, in any order, the data callbacks of the two        *)
(* streams, the timer callback, and the close and error callbacks of the   *)
(* child.  What the child does is an input; 'error' may be emitted at any  *)
(* time before 'close' and 'close' need not follow it.  One call is        *)
(* followed from its start.                                                *)
(***************************************************************************)
\* the most data events of one stream
MaxChunks == 2

\* the exits of the child: an exit code, or the signal that ended it (the
\* code is then null in the close event, and not 0)
Exit(code, signal) == [code |-> code, signal |-> signal]
Exits == { Exit(0, ""), Exit(1, ""), Exit(0, "SIGTERM") }

\* index.ts:338-357  the child, its collected output and the timer right
\* after the spawn; the promise of index.ts:324 is pending
Spawned ==
    [child |-> "running", stdout |-> "", stderr |-> "", timer |-> "armed",
     promise |-> "pending", settles |-> 0]

\* Settle with every call settling the promise anew
Settle_LastWins(promise, resp, settled) ==
    IF settled.ok THEN [promise |-> "fulfilled", response |-> TextResponse(settled.path)]
    ELSE [promise |-> "rejected", response |-> ErrorResponse(settled.err)]

\* index.ts:324  resolve and reject: the first call settles the promise, and
\* the handler returns its value (index.ts:622-625) or the message of its
\* Error (index.ts:654-660); a call on a settled promise does nothing
Settle(promise, resp, settled) ==
    IF promise # "pending" THEN [promise |-> promise, response |-> resp]
    ELSE IF settled.ok
    THEN [promise |-> "fulfilled", response |-> TextResponse(settled.path)]
    ELSE [promise |-> "rejected", response |-> ErrorResponse(settled.err)]

\* index.ts:359-367  what the close callback settles the promise with
CloseSettles(exit, stdout, stderr, timeout) ==
    IF exit.signal # ""
    THEN Throw("Command failed with exit code null:\n" \o stdout \o
               (IF stderr # "" THEN "\nSTDERR:\n" \o stderr ELSE ""))
    ELSE RunSettles(Closed(exit.code, stdout, stderr), timeout)

\* child.kill calls among the events
KillCalls(evs) == { i \in 1..Len(evs) : evs[i].op = "kill" }

\* index.ts:319-357  the call starts: a working directory outside the
\* boundary rejects at once and nothing is spawned; otherwise the shell is
\* spawned and the timer armed
run_start ==
    /\ Idle
    /\ proc = NoRun
    /\ \E workingDirectory \in WorkingDirs :
          /\ request' = [name |-> "run_terminal_command",
                         workingDirectory |-> workingDirectory,
                         timeout |-> DefaultTimeout]
          /\ IF workingDirectory # ""
                /\ ~WorkingDirAllowed(allowedDirectories, cwd, workingDirectory)
             THEN /\ response' = ErrorResponse("Working directory outside allowed directories")
                  /\ UNCHANGED <<events, proc>>
             ELSE /\ events' = <<Ev("spawn", "", TRUE, ValidWorkingDir(cwd, workingDirectory))>>
                  /\ proc' = Spawned
                  /\ UNCHANGED response
    /\ UNCHANGED <<allowedDirectories, cwd, fs, calls>>

\* index.ts:346-348
stdout_data ==
    /\ proc.child = "running"
    /\ Len(proc.stdout) < MaxChunks * Len("out\n")
    /\ proc' = [proc EXCEPT !.stdout = @ \o "out\n"]
    /\ UNCHANGED <<allowedDirectories, cwd, fs, request, events, response, calls>>

\* index.ts:350-352
stderr_data ==
    /\ proc.child = "running"
    /\ Len(proc.stderr) < MaxChunks * Len("err\n")
    /\ proc' = [proc EXCEPT !.stderr = @ \o "err\n"]
    /\ UNCHANGED <<allowedDirectories, cwd, fs, request, events, response, calls>>

\* index.ts:354-357  the timer callback
timer_expires ==
    /\ proc.child # "none"
    /\ proc.timer = "armed"
    /\ LET s == Settle(proc.promise, response,
                       RunSettles(TimedOut(proc.stdout, proc.stderr), request.timeout))
       IN /\ proc' = [proc EXCEPT !.timer = "fired", !.promise = s.promise,
                                  !.settles = @ + 1]
          /\ response' = s.response
    /\ events' = Append(events, Ev("kill", "", TRUE, "SIGTERM"))
    /\ UNCHANGED <<allowedDirectories, cwd, fs, request, calls>>

\* index.ts:359-367  the close callback; a child ends by SIGTERM only when
\* it was sent one
child_close ==
    /\ proc.child \in {"running", "errored"}
    /\ \E exit \in Exits :
          /\ exit.signal # "" => KillCalls(events) # {}
          /\ LET s == Settle(proc.promise, response,
                             CloseSettles(exit, proc.stdout, proc.stderr,
                                          request.timeout))
             IN /\ proc' = [proc EXCEPT !.child = "closed",
                                        !.timer = IF @ = "armed" THEN "cleared" ELSE @,
                                        !.promise = s.promise, !.settles = @ + 1]
                /\ response' = s.response
    /\ UNCHANGED <<allowedDirectories, cwd, fs, request, events, calls>>

\* index.ts:369-372  the error callback; 'error' is emitted once at most
child_error ==
    /\ proc.child = "running"
    /\ LET s == Settle(proc.promise, response, RunSettles(Failed, request.timeout))
       IN /\ proc' = [proc EXCEPT !.child = "errored",
                                  !.timer = IF @ = "armed" THEN "cleared" ELSE @,
                                  !.promise = s.promise, !.settles = @ + 1]
          /\ response' = s.response
    /\ UNCHANGED <<allowedDirectories, cwd, fs, request, events, calls>>

NextRun ==
    \/ run_start
    \/ stdout_data
    \/ stderr_data
    \/ timer_expires
    \/ child_close
    \/ child_error

\* the event loop runs the callback of a timer that is armed
SpecRun == Init /\ [][NextRun]_vars /\ WF_vars(timer_expires)

(***************************************************************************)
(* Two edit_file calls on one file, handled together: index.ts:594-604 and *)
(* 395-462.  The server starts a handler for each request as it comes and  *)
(* a handler gives way at each await, so the steps of the two calls        *)
(* interleave.  fs.writeFile is no single operation: it opens the file     *)
(* with the flag 'w', which empties it, then writes the text from the      *)
(* start of the file, leaving what lies beyond the text written.           *)
(***************************************************************************)
\* the two calls
CallIds == {1, 2}

\* the texts the file starts with
ConcContents == { "a\nb", "a\nb\nc" }

\* the edit lists of the two calls
ConcEdits == { <<E("a", "c")>>, <<E("b", "a\nb")>>, <<E("b", "")>>, <<E("missing", "x")>> }

\* a call not made yet
NotCalled ==
    [pc |-> "idle", edits |-> <<>>, dryRun |-> FALSE, path |-> "", read |-> "",
     modified |-> "", response |-> NoResponse]

\* a call that returned resp
Returned(call, resp) == [call EXCEPT !.pc = "done", !.response = resp]

\* AfterRead leaving the content read as it is
AfterRead_DropsEdits(call, text) ==
    LET content == normalizeLineEndings(text)
        diff == createUnifiedDiff(content, content, call.path)
        withText == [call EXCEPT !.read = content, !.modified = content]
    IN IF call.dryRun
       THEN Returned(withText, TextResponse(FormattedDiff(diff)))
       ELSE [withText EXCEPT !.pc = "computed",
                             !.response = TextResponse(FormattedDiff(diff))]

\* index.ts:400-459  the call after readFile gave it text: the edits are
\* applied in memory and the diff made; a dry run returns it, another call
\* goes on to writeFile; an edit that does not match throws (index.ts:445)
AfterRead(call, text) ==
    LET content == normalizeLineEndings(text)
        applied == ApplyEdits(content, call.edits)
        diff == createUnifiedDiff(content, applied.path, call.path)
        withText == [call EXCEPT !.read = content, !.modified = applied.path]
    IN IF ~applied.ok THEN Returned([call EXCEPT !.read = content],
                                    ErrorResponse(applied.err))
       ELSE IF call.dryRun
       THEN Returned(withText, TextResponse(FormattedDiff(diff)))
       ELSE [withText EXCEPT !.pc = "computed",
                             !.response = TextResponse(FormattedDiff(diff))]

\* write(fd, text) at the start of a file that holds cur: the text, then
\* what cur holds beyond it
WrittenOver(cur, text) == text \o SliceFrom(cur, Len(text))

Step(c, call) ==
    /\ calls' = [calls EXCEPT ![c] = call]
    /\ UNCHANGED <<allowedDirectories, cwd, request, events, response, proc>>

\* index.ts:594-598  a request comes in
call_edit_file ==
    \E c \in CallIds, edits \in ConcEdits, dryRun \in BOOLEAN :
       /\ calls[c].pc = "idle"
       /\ Step(c, [calls[c] EXCEPT !.pc = "called", !.edits = edits,
                                   !.dryRun = dryRun])
       /\ UNCHANGED fs

\* index.ts:599  await validatePath(parsed.data.path)
edit_validate ==
    \E c \in CallIds :
       /\ calls[c].pc = "called"
       /\ LET v == validatePath(fs, allowedDirectories, cwd, EditPath) IN
          Step(c, IF v.ok THEN [calls[c] EXCEPT !.pc = "validated", !.path = v.path]
                  ELSE Returned(calls[c], ErrorResponse(v.err)))
       /\ UNCHANGED fs

\* index.ts:400  await fs.readFile(filePath, 'utf-8'), and what follows it
\* up to the next await
edit_read ==
    \E c \in CallIds :
       /\ calls[c].pc = "validated"
       /\ LET read == FsReadFile(fs, calls[c].path) IN
          Step(c, IF read.ok THEN AfterRead(calls[c], read.path)
                  ELSE Returned(calls[c], ErrorResponse(read.err)))
       /\ UNCHANGED fs

\* index.ts:458  fs.writeFile: the file is opened and emptied
edit_open ==
    \E c \in CallIds :
       /\ calls[c].pc = "computed"
       /\ Step(c, [calls[c] EXCEPT !.pc = "opened"])
       /\ fs' = FsWriteFile(fs, calls[c].path, "")

\* index.ts:458-461  fs.writeFile: the text is written, and the diff returned
edit_write ==
    \E c \in CallIds :
       /\ calls[c].pc = "opened"
       /\ Step(c, [calls[c] EXCEPT !.pc = "done"])
       /\ fs' = FsWriteFile(fs, calls[c].path,
                            WrittenOver(FsReadFile(fs, calls[c].path).path,
                                        calls[c].modified))

InitConc ==
    /\ allowedDirectories = <<"/work">>
    /\ cwd = "/work"
    /\ \E content \in ConcContents : fs = [InitialFs EXCEPT ![EditPath] = File(content)]
    /\ request = NoRequest
    /\ events = <<>>
    /\ response = NoResponse
    /\ proc = NoRun
    /\ calls = [c \in CallIds |-> NotCalled]

NextConc ==
    \/ call_edit_file
    \/ edit_validate
    \/ edit_read
    \/ edit_open
    \/ edit_write

SpecConc == InitConc /\ [][NextConc]_vars

(***************************************************************************)
(* Properties.                                                             *)
(***************************************************************************)
\* p is dir itself or lies below it: dir followed by a separator is a prefix
Contained(dir, p) ==
    \/ p = dir
    \/ StartsWith(p, IF dir = "/" THEN "/" ELSE dir \o "/")

InsideBoundary(dirs, p) == \E i \in 1..Len(dirs) : Contained(dirs[i], p)

\* the home-expanded, absolute, normalized form of a requested path
NominalOf(wd, p) == normalizePath(AbsoluteOf(wd, p))

IsValidate(e) == e.op = "validatePath"

\* the validatePath calls among the events of a call
ValidateCalls(evs) == { evs[i] : i \in { j \in DOMAIN evs : IsValidate(evs[j]) } }

AccessDenied(e) == ~e.ok /\ StartsWith(e.err, "Access denied")

\* the path names a symbolic link
IsLink(f, p) ==
    LET key == LinkPath(f, p) IN key # "" /\ NodeAt(f, key).kind = "link"

\* C1: every validatePath call on a path whose normalized absolute form lies
\* outside every allowed directory fails with an access-denied error.
C1_OutsideIsDenied ==
    \A i \in DOMAIN events :
        (/\ IsValidate(events[i])
         /\ ~InsideBoundary(allowedDirectories, NominalOf(cwd, events[i].path)))
        => AccessDenied(events[i])

\* C2: every validatePath call on a symbolic link that is nominally inside an
\* allowed directory and whose real target lies outside every allowed
\* directory fails with an access-denied error.
C2_SymlinkEscapeIsDenied ==
    [][\A e \in ValidateCalls(events') :
          \A absolute \in { AbsoluteOf(cwd, e.path) } :
          \A real \in { Realpath(fs, absolute) } :
             (/\ InsideBoundary(allowedDirectories, normalizePath(absolute))
              /\ IsLink(fs, absolute)
              /\ real # ""
              /\ ~InsideBoundary(allowedDirectories, real))
             => AccessDenied(e)]_vars

\* C3: validatePath accepts a path only if its normalized absolute form is an
\* allowed directory or lies below one (segment-aligned containment).
C3_SegmentAligned ==
    \A i \in DOMAIN events :
        (IsValidate(events[i]) /\ events[i].ok)
        => InsideBoundary(allowedDirectories, NominalOf(cwd, events[i].path))

\* C4: when the target does not exist and its parent's real path lies outside
\* every allowed directory, validatePath fails with an access-denied error
\* (not with the parent-does-not-exist error).
C4_ParentEscapeIsDenied ==
    [][\A e \in ValidateCalls(events') :
          \A absolute \in { AbsoluteOf(cwd, e.path) } :
          \A realParent \in { Realpath(fs, PathDirname(absolute)) } :
             (/\ InsideBoundary(allowedDirectories, normalizePath(absolute))
              /\ Realpath(fs, absolute) = ""
              /\ realParent # ""
              /\ ~InsideBoundary(allowedDirectories, realParent))
             => AccessDenied(e)]_vars

\* the target does not exist and its parent exists with a real path inside
\* an allowed directory
NewInAllowedParent(f, dirs, absolute) ==
    \E realParent \in { Realpath(f, PathDirname(absolute)) } :
       /\ Realpath(f, absolute) = ""
       /\ realParent # ""
       /\ InsideBoundary(dirs, realParent)

\* C5 as stated: every validatePath call on a path that does not exist and
\* whose parent resolves inside an allowed directory returns the normalized
\* absolute form of the requested path.
C5_NewFileAccepted ==
    [][\A e \in ValidateCalls(events') :
          \A absolute \in { AbsoluteOf(cwd, e.path) } :
             NewInAllowedParent(fs, allowedDirectories, absolute)
             => (e.ok /\ e.out = normalizePath(absolute))]_vars

\* C5 amended: every validatePath call on a path whose normalized absolute
\* form lies inside an allowed directory, that does not exist and whose
\* parent resolves inside an allowed directory, returns the normalized
\* absolute form of the requested path.
C5_NewFileInsideAccepted ==
    [][\A e \in ValidateCalls(events') :
          \A absolute \in { AbsoluteOf(cwd, e.path) } :
             (/\ InsideBoundary(allowedDirectories, normalizePath(absolute))
              /\ NewInAllowedParent(fs, allowedDirectories, absolute))
             => (e.ok /\ e.out = normalizePath(absolute))]_vars

\* a call validated a new file below an allowed directory and got its
\* normalized path back
C5_Witness ==
    /\ request.name = "read_file"
    /\ request.path = "/work/src/../src/new.txt"
    /\ NewInAllowedParent(fs, allowedDirectories, AbsoluteOf(cwd, request.path))
    /\ events[1].ok /\ events[1].out = "/work/src/new.txt"

\* C6: with a boundary configured through a symbolic link, every validatePath
\* call on an existing file that is requested through the boundary and lies
\* physically under the boundary's real directory returns the file's real path.
C6_CanonicalBoundary ==
    [][\A e \in ValidateCalls(events') :
          \A absolute \in { AbsoluteOf(cwd, e.path) } :
          \A real \in { Realpath(fs, absolute) } :
             (/\ InsideBoundary(allowedDirectories, normalizePath(absolute))
              /\ real # "" /\ NodeAt(fs, real).kind = "file"
              /\ \E d \in 1..Len(allowedDirectories) :
                    \E realDir \in { Realpath(fs, allowedDirectories[d]) } :
                       realDir # "" /\ Contained(realDir, real))
             => (e.ok /\ e.out = real)]_vars

\* the tools that take a path, and the operations that touch the
\* filesystem or start a child
PathTools ==
    { "read_file", "list_directory", "edit_file", "delete_file", "search_files",
      "grep_search" }
IOOps == { "readFile", "readdir", "writeFile", "unlink", "spawn" }

\* C7: in every call of a path tool with a path argument, validatePath is
\* invoked on the caller's path first, every filesystem call and spawn comes
\* after it has returned successfully, and none happens if it failed.
C7_ValidateBeforeIO ==
    (request.name \in PathTools /\ request.path # "")
    => /\ Len(events) > 0
       /\ IsValidate(events[1]) /\ events[1].path = request.path
       /\ \A i \in DOMAIN events :
             events[i].op \in IOOps
             => \E j \in 1..(i - 1) :
                   /\ IsValidate(events[j])
                   /\ events[j].path = request.path
                   /\ events[j].ok
       /\ (\E j \in DOMAIN events :
              IsValidate(events[j]) /\ events[j].path = request.path /\ ~events[j].ok)
          => \A i \in DOMAIN events : events[i].op \notin IOOps

\* a delete_file call validated its path and then unlinked it
C7_Witness ==
    /\ request.name = "delete_file"
    /\ Len(events) = 2
    /\ IsValidate(events[1]) /\ events[1].ok
    /\ events[2].op = "unlink" /\ events[2].ok

\* C8: the cwd of every shell spawned by run_terminal_command is nominally
\* inside an allowed directory and, if it exists, really inside one.
C8_SpawnCwdValidated ==
    request.name = "run_terminal_command"
    => \A i \in DOMAIN events :
          events[i].op = "spawn"
          => LET absolute == PathResolve(cwd, events[i].out)
                 real == Realpath(fs, absolute)
             IN /\ InsideBoundary(allowedDirectories, absolute)
                /\ real = "" \/ InsideBoundary(allowedDirectories, real)

\* C9: a grep_search call whose path lies outside every allowed directory
\* returns an error result.
C9_GrepDeniedIsError ==
    (/\ request.name = "grep_search"
     /\ request.path # ""
     /\ ~InsideBoundary(allowedDirectories, NominalOf(cwd, request.path)))
    => response.isError

\* the edit's old text matches the text exactly or by line window
EditMatches(text, edit) ==
    LET old == normalizeLineEndings(edit.oldText) IN
    \/ Includes(text, old)
    \/ FirstWindow(Split(text, "\n"), Split(old, "\n"), 1) # 0

\* B matches only after A has been applied
MatchesOnlyAfter(text, A, B) ==
    /\ EditMatches(text, A)
    /\ ~EditMatches(text, B)
    /\ EditMatches(ApplyOneEdit(text, A).path, B)

\* the text applyFileEdits reads from the file
FileText(f) == normalizeLineEndings(NodeAt(f, EditPath).content)

\* C10: a call with edits [A, B], where B matches only after A, succeeds and
\* writes B applied to the result of A; a call with [B, A] on the same text
\* fails with the error that names B's old text, and writes nothing.
C10_ListOrder ==
    [][(request'.name = "edit_file" /\ Len(request'.edits) = 2)
       => \A text \in { FileText(fs) } :
          \A first \in { request'.edits[1] }, second \in { request'.edits[2] } :
             /\ MatchesOnlyAfter(text, first, second)
                => /\ ~response'.isError
                   /\ ~request'.dryRun
                      => NodeAt(fs', EditPath).content
                            = ApplyOneEdit(ApplyOneEdit(text, first).path, second).path
             /\ MatchesOnlyAfter(text, second, first)
                => /\ response'.isError
                   /\ response'.text
                        = "Error: Could not find exact match for edit:\n" \o first.oldText
                   /\ fs' = fs]_vars

\* a dry run of [A, B], B matching by line window only after A, succeeded
C10_Witness ==
    /\ request.name = "edit_file"
    /\ request.dryRun
    /\ request.edits = <<E("a", "c"), E(" c \nb", "a")>>
    /\ MatchesOnlyAfter(FileText(fs), request.edits[1], request.edits[2])
    /\ ~response.isError

\* the edits of the call just handled, when it was an edit_file call of n edits
EditCall(req, n) == req.name = "edit_file" /\ Len(req.edits) = n

\* text with the first occurrence of old replaced by new, new taken as it is
LiteralReplace(text, old, new) ==
    LET k == IndexOf(text, old) IN
    SubSeq(text, 1, k - 1) \o new \o SliceFrom(text, k + Len(old) - 1)

\* C11: when the normalized old text of an edit occurs verbatim in the
\* content, the call succeeds and the content written is the content read
\* with the first occurrence replaced by the normalized new text, taken
\* literally whatever characters it holds; when the old text is the whole
\* file, the file then holds exactly the normalized new text.
C11_ExactReplaceIsLiteral ==
    [][(EditCall(request', 1) /\ ~request'.dryRun)
       => \A text \in { FileText(fs) } :
          \A old \in { normalizeLineEndings(request'.edits[1].oldText) },
             new \in { normalizeLineEndings(request'.edits[1].newText) } :
             Includes(text, old)
                => /\ ~response'.isError
                   /\ NodeAt(fs', EditPath).content = LiteralReplace(text, old, new)
                   /\ old = text => NodeAt(fs', EditPath).content = new]_vars

\* the first line of the text that is the old text up to white space at its
\* ends (1-based), 0 if there is none
RECURSIVE FirstLineLike(_, _, _)
FirstLineLike(lines, old, i) ==
    IF i > Len(lines) THEN 0
    ELSE IF Trim(lines[i]) = Trim(old) THEN i
    ELSE FirstLineLike(lines, old, i + 1)

\* the old text occurs in none of the lines before line i
NotBefore(lines, old, i) == \A j \in 1..(i - 1) : ~Includes(lines[j], old)

\* C12: when a single-line old text is indented differently from the content
\* line it matches, and the new text is a single line with no indentation and
\* no replacement pattern, the line after the edit is the content line's own
\* leading white space followed by the new text ('  foo()' against
\* '    foo()' replaced by 'bar()' gives '    bar()').
C12_IndentationPreserved ==
    [][(EditCall(request', 1) /\ ~request'.dryRun)
       => \A lines \in { Split(FileText(fs), "\n") } :
          \A old \in { normalizeLineEndings(request'.edits[1].oldText) },
             new \in { normalizeLineEndings(request'.edits[1].newText) } :
          \A i \in { FirstLineLike(lines, old, 1) } :
             (/\ ~Includes(old, "\n") /\ ~Includes(new, "\n") /\ ~Includes(new, "$")
              /\ LeadingSpace(new) = ""
              /\ i # 0
              /\ NotBefore(lines, old, i)
              /\ LeadingSpace(old) # LeadingSpace(lines[i]))
                => /\ ~response'.isError
                   /\ Split(NodeAt(fs', EditPath).content, "\n")[i]
                         = LeadingSpace(lines[i]) \o new]_vars

\* the places where the old text occurs verbatim in the text
Occurrences(text, old) ==
    { k \in 1..Len(text) : k + Len(old) - 1 <= Len(text)
                           /\ SubSeq(text, k, k + Len(old) - 1) = old }

\* the line windows of the text that match the old text
Windows(text, old) ==
    LET contentLines == Split(text, "\n")
        oldLines == Split(old, "\n")
    IN { i \in 1..Len(contentLines) :
            i + Len(oldLines) - 1 <= Len(contentLines)
            /\ WindowMatches(contentLines, oldLines, i) }

\* the old text matches at more than one place: more than one verbatim
\* occurrence or, when there is none, more than one line window
Ambiguous(text, old) ==
    IF Includes(text, old) THEN Cardinality(Occurrences(text, old)) > 1
    ELSE Cardinality(Windows(text, old)) > 1

\* C13: an edit whose old text matches at more than one place of the content
\* is not applied: the call fails with the error naming the old text and the
\* file is left as it was.
C13_AmbiguousIsRefused ==
    [][EditCall(request', 1)
       => \A text \in { FileText(fs) } :
             Ambiguous(text, normalizeLineEndings(request'.edits[1].oldText))
                => /\ response'.isError
                   /\ response'.text = "Error: Could not find exact match for edit:\n"
                                          \o request'.edits[1].oldText
                   /\ fs' = fs]_vars

\* the first edit of the list that matches neither way on the content the
\* edits before it leave (1-based, counted from k), 0 if every edit matches
RECURSIVE Unmatched(_, _, _)
Unmatched(text, edits, k) ==
    IF k > Len(edits) THEN 0
    ELSE IF ~EditMatches(text, edits[k]) THEN k
    ELSE Unmatched(ApplyOneEdit(text, edits[k]).path, edits, k + 1)

\* the writeFile calls among the events
WriteCalls(evs) == { i \in 1..Len(evs) : evs[i].op = "writeFile" }

\* C14: when an edit of the list matches neither exactly nor by line window,
\* the call fails with the error naming that edit's old text and writes
\* nothing: the file is byte for byte what it was, whether or not earlier
\* edits of the list matched and whatever dryRun is.
C14_UnmatchedWritesNothing ==
    [][request'.name = "edit_file"
       => \A k \in { Unmatched(FileText(fs), request'.edits, 1) } :
             k # 0
                => /\ response'.isError
                   /\ response'.text = "Error: Could not find exact match for edit:\n"
                                          \o request'.edits[k].oldText
                   /\ WriteCalls(events') = {}
                   /\ fs' = fs]_vars

\* a call that was to write failed at its second edit after the first one
\* had changed the content in memory; the file still has its CRLF line ends
C14_Witness ==
    /\ EditCall(request, 2)
    /\ ~request.dryRun
    /\ NodeAt(fs, EditPath).content = "a\r\nb\r\n"
    /\ EditMatches(FileText(fs), request.edits[1])
    /\ ApplyOneEdit(FileText(fs), request.edits[1]).path # FileText(fs)
    /\ Unmatched(FileText(fs), request.edits, 1) = 2
    /\ response.isError

\* the content the edits from the k-th on leave, each applied to what the
\* one before it left
RECURSIVE FinalContent(_, _, _)
FinalContent(text, edits, k) ==
    IF k > Len(edits) THEN text
    ELSE FinalContent(ApplyOneEdit(text, edits[k]).path, edits, k + 1)

\* C15: a dry run never writes: the filesystem after the call is the one
\* before it, and when every edit matched the diff is returned all the
\* same; a call that is no dry run and whose edits all matched writes the
\* file exactly once, with the content the last edit left.
C15_DryRunFrame ==
    [][request'.name = "edit_file"
       => \A text \in { FileText(fs) } :
          \A final \in { FinalContent(text, request'.edits, 1) } :
             /\ request'.dryRun => fs' = fs /\ WriteCalls(events') = {}
             /\ Unmatched(text, request'.edits, 1) = 0
                => /\ ~response'.isError
                   /\ response'.text
                         = FormattedDiff(createUnifiedDiff(text, final, EditPath))
                   /\ ~request'.dryRun
                      => /\ Cardinality(WriteCalls(events')) = 1
                         /\ events'[Len(events')].op = "writeFile"
                         /\ fs' = [fs EXCEPT ![EditPath] = File(final)]]_vars

\* a dry run of two edits that both matched returned a diff with changes
C15_Witness ==
    /\ EditCall(request, 2)
    /\ request.dryRun
    /\ Unmatched(FileText(fs), request.edits, 1) = 0
    /\ FinalContent(FileText(fs), request.edits, 1) # FileText(fs)
    /\ ~response.isError
    /\ Includes(response.text, "\n+")

\* C16: when the timer of a run_terminal_command call expires, the failure
\* returned to the caller carries the stdout and the stderr collected from
\* the child up to that moment.
C16_TimeoutCarriesOutput ==
    [][(proc.child # "none" /\ proc.timer = "armed" /\ proc'.timer = "fired")
       => /\ response'.isError
          /\ Includes(response'.text, proc.stdout)
          /\ Includes(response'.text, proc.stderr)]_vars

\* a command was spawned
Running == proc.child # "none"

\* the failure of a call that timed out, as the caller gets it
TimeoutFailure ==
    [isError |-> TRUE,
     text |-> "Error: Command timed out after " \o ToString(request.timeout) \o "ms"]

\* the spawn calls among the events
SpawnCalls(evs) == { i \in 1..Len(evs) : evs[i].op = "spawn" }

\* once the timer has fired the outcome is the timeout failure, whatever
\* came later; the shell is spawned once; a cancelled timer sent no signal
\* and a signal is sent once at most
TimerRaceInvariant ==
    /\ proc.timer = "fired" => response = TimeoutFailure
    /\ Cardinality(SpawnCalls(events)) = 1
    /\ proc.timer = "cleared" => KillCalls(events) = {}
    /\ Cardinality(KillCalls(events)) <= 1
    /\ (proc.promise = "pending") = (proc.settles = 0)

\* the timer callback sends SIGTERM and fails the call; a close or an error
\* that comes while the timer is armed cancels it; a settled call keeps its
\* outcome
TimerRaceStep ==
    /\ (proc.timer = "armed" /\ proc'.timer = "fired")
          => /\ events' = Append(events, Ev("kill", "", TRUE, "SIGTERM"))
             /\ response' = TimeoutFailure
    /\ (proc.timer = "armed" /\ proc'.child \in {"closed", "errored"}
          /\ proc'.child # proc.child)
          => proc'.timer = "cleared" /\ proc'.promise # "pending"
    /\ proc.promise # "pending"
          => proc'.promise = proc.promise /\ response' = response

\* C17: if the timer expires before the child's close event, the child is
\* sent SIGTERM, the outcome of the call is the timeout failure, nothing is
\* spawned again, and a later close or error event leaves the outcome as it
\* is; if the child closes or errors first, the timer is cancelled and no
\* signal is ever sent.  In every interleaving the call settles, and settles
\* once.
C17_TimerRace ==
    /\ [](Running => TimerRaceInvariant)
    /\ [][Running => TimerRaceStep]_vars
    /\ (Running ~> (Running /\ proc.promise # "pending"))

\* the timer fired while the child had written output, the child then ended
\* by the signal and its close callback rejected a second time: the outcome
\* is still the timeout failure
C17_Witness ==
    /\ Running
    /\ proc.timer = "fired"
    /\ proc.child = "closed"
    /\ proc.settles = 2
    /\ proc.stdout # ""
    /\ Cardinality(KillCalls(events)) = 1
    /\ response = TimeoutFailure

\* the lowest number of a set of numbers that is not empty
Lowest(S) == CHOOSE i \in S : \A j \in S : i <= j

\* C18: when the old text does not occur verbatim and several line windows
\* match it up to white space at the ends of the lines, the window with the
\* lowest starting line is the one replaced (its first line becomes the
\* content line's indentation followed by the new text's first line), the
\* lines before it and the lines after it are what they were, so the other
\* matching windows are left alone.
C18_LowestWindowReplaced ==
    [][(EditCall(request', 1) /\ ~request'.dryRun)
       => \A text \in { FileText(fs) } :
          \A old \in { normalizeLineEndings(request'.edits[1].oldText) } :
          \A windows \in { Windows(text, old) } :
             (~Includes(text, old) /\ Cardinality(windows) > 1)
                => \A i \in { Lowest(windows) } :
                   \A lines \in { Split(text, "\n") },
                      count \in { Len(Split(old, "\n")) },
                      newLines \in { Split(normalizeLineEndings(
                                               request'.edits[1].newText), "\n") },
                      result \in { Split(NodeAt(fs', EditPath).content, "\n") } :
                      /\ ~response'.isError
                      /\ Len(result) = Len(lines) - count + Len(newLines)
                      /\ SubSeq(result, 1, i - 1) = SubSeq(lines, 1, i - 1)
                      /\ result[i] = LeadingSpace(lines[i]) \o TrimStart(newLines[1])
                      /\ SubSeq(result, i + Len(newLines), Len(result))
                            = SubSeq(lines, i + count, Len(lines))]_vars

\* an edit whose old text 'a ' matches the first two lines of '  a\n  a\nb'
\* by window only was applied: the first line was replaced, the second kept
C18_Witness ==
    /\ EditCall(request, 1)
    /\ ~request.dryRun
    /\ request.edits[1] = E("a ", "c")
    /\ ~response.isError
    /\ NodeAt(fs, EditPath).content = "  c\n  a\nb"

\* C19: the content a successful call leaves (the one it diffs, and writes
\* when it is no dry run) holds no CRLF, whatever the file held and whatever
\* the edits were, an edit that removes the text between a lone carriage
\* return and a line feed included.
C19_OutputIsLF ==
    [][request'.name = "edit_file"
       => \A text \in { FileText(fs) } :
             ~response'.isError
                => /\ ~Includes(FinalContent(text, request'.edits, 1), "\r\n")
                   /\ ~request'.dryRun
                         => ~Includes(NodeAt(fs', EditPath).content, "\r\n")]_vars

\* call c writes its text in this step
Writes(c) == calls[c].pc = "opened" /\ calls'[c].pc = "done"

====
